---- MODULE Spec2Model ----
(***************************************************************************)
(* Model of the COACH self-service portal back end: the /api/put,          *)
(* /api/s3, /api/upload and registration-status handlers, the object store *)
(* they talk to, and the string normalisations they build keys with.       *)
(*                                                                         *)
(* A JavaScript string is a sequence of one-character strings, so that     *)
(* lower-casing, trimming, percent-encoding and regular-expression         *)
(* replacement are computed character by character as the code does.      *)
(***************************************************************************)
EXTENDS Integers, Sequences, FiniteSets, TLC

(* ------------------------------ bounds -------------------------------- *)
\* longest input string of the pure-function specification
MaxLen == 3
\* number of HTTP requests in one behaviour
MaxReq == 2
\* the clock runs over the milliseconds 0..MaxMs
MaxMs == 1
\* most file descriptors in one /upload request
MaxFiles == 2
\* number of /upload requests in one behaviour
MaxUploads == 1

(* ----------------------------- characters ----------------------------- *)
Lower == {"a","b","c","d","e","f","g","h","i","j","k","l","m",
          "n","o","p","q","r","s","t","u","v","w","x","y","z"}
Upper == {"A","B","C","D","E","F","G","H","I","J","K","L","M",
          "N","O","P","Q","R","S","T","U","V","W","X","Y","Z"}
Digit == {"0","1","2","3","4","5","6","7","8","9"}
WhiteSpace == {" "}

LowerSeq == <<"a","b","c","d","e","f","g","h","i","j","k","l","m",
              "n","o","p","q","r","s","t","u","v","w","x","y","z">>
UpperSeq == <<"A","B","C","D","E","F","G","H","I","J","K","L","M",
              "N","O","P","Q","R","S","T","U","V","W","X","Y","Z">>
\* String.prototype.toLowerCase on one ASCII character
ToLowerChar(c) ==
  IF c \in Upper THEN LowerSeq[CHOOSE i \in 1..26 : UpperSeq[i] = c] ELSE c

\* the characters request strings are drawn from
Alphabet == {"a", "A", "@", " ", "-", "!"}

RECURSIVE SeqsUpTo(_, _)
SeqsUpTo(S, n) ==
  IF n = 0 THEN {<< >>}
  ELSE LET shorter == SeqsUpTo(S, n - 1)
       IN  shorter \cup {Append(s, c) : s \in {t \in shorter : Len(t) = n - 1}, c \in S}

RECURSIVE Concat(_)
Concat(ss) == IF ss = << >> THEN << >> ELSE Head(ss) \o Concat(Tail(ss))

(* ------------------------- string operations -------------------------- *)
toLowerCase(s) == [i \in 1..Len(s) |-> ToLowerChar(s[i])]

RECURSIVE TrimStart(_)
TrimStart(s) ==
  IF s # << >> /\ Head(s) \in WhiteSpace THEN TrimStart(Tail(s)) ELSE s

RECURSIVE TrimEnd(_)
TrimEnd(s) ==
  IF s # << >> /\ s[Len(s)] \in WhiteSpace
  THEN TrimEnd(SubSeq(s, 1, Len(s) - 1)) ELSE s

trim(s) == TrimEnd(TrimStart(s))

\* characters encodeURIComponent leaves alone
UriUnreserved == Lower \cup Upper \cup Digit \cup {"-", "_", ".", "!", "~", "*", "'", "(", ")"}

\* UTF-8 percent-escapes of the other ASCII characters in use
PctCode(c) ==
  CASE c = " " -> <<"%", "2", "0">>
    [] c = "%" -> <<"%", "2", "5">>
    [] c = "/" -> <<"%", "2", "F">>
    [] c = ":" -> <<"%", "3", "A">>
    [] c = "@" -> <<"%", "4", "0">>

EncodeChar(c) == IF c \in UriUnreserved THEN <<c>> ELSE PctCode(c)
encodeURIComponent(s) == Concat([i \in 1..Len(s) |-> EncodeChar(s[i])])

\* /[^a-zA-Z0-9._-]/
SanitizeKeep == Lower \cup Upper \cup Digit \cup {".", "_", "-"}
AtChar(c) == IF c = "@" THEN <<"_", "a", "t", "_">> ELSE <<c>>
UnderscoreChar(c) == IF c \in SanitizeKeep THEN <<c>> ELSE <<"_">>
\* e.replace(/@/g, '_at_').replace(/[^a-zA-Z0-9._-]/g, '_')
sanitizeEmail(e) ==
  LET ats == Concat([i \in 1..Len(e) |-> AtChar(e[i])])
  IN  Concat([i \in 1..Len(ats) |-> UnderscoreChar(ats[i])])

\* /[^a-z0-9._-]+/g  ->  '-'   (each maximal run becomes one dash)
SafeIdKeep == Lower \cup Digit \cup {".", "_", "-"}
RECURSIVE ReplaceRuns(_, _, _)
ReplaceRuns(s, keep, inRun) ==
  IF s = << >> THEN << >>
  ELSE IF Head(s) \in keep THEN <<Head(s)>> \o ReplaceRuns(Tail(s), keep, FALSE)
  ELSE IF inRun THEN ReplaceRuns(Tail(s), keep, TRUE)
  ELSE <<"-">> \o ReplaceRuns(Tail(s), keep, TRUE)

\* /-+/g  ->  '-'
RECURSIVE CollapseDashes(_, _)
CollapseDashes(s, afterDash) ==
  IF s = << >> THEN << >>
  ELSE IF Head(s) = "-"
       THEN (IF afterDash THEN << >> ELSE <<"-">>) \o CollapseDashes(Tail(s), TRUE)
       ELSE <<Head(s)>> \o CollapseDashes(Tail(s), FALSE)

\* /^-|-$/g  ->  ''   (one dash at the start, one at the end)
StripEdgeDash(s) ==
  LET a == IF s # << >> /\ Head(s) = "-" THEN Tail(s) ELSE s
  IN  IF a # << >> /\ a[Len(a)] = "-" THEN SubSeq(a, 1, Len(a) - 1) ELSE a

safeId(input) ==
  StripEdgeDash(CollapseDashes(ReplaceRuns(toLowerCase(trim(input)), SafeIdKeep, FALSE), FALSE))

\* body.teamEmail.toLowerCase().trim() then encodeURIComponent
teamKeyOf(teamEmail) == encodeURIComponent(trim(toLowerCase(teamEmail)))

\* s.replace(/^\/+|\/+$/g, "")
RECURSIVE StripLeadSlashes(_)
StripLeadSlashes(s) == IF s # << >> /\ Head(s) = "/" THEN StripLeadSlashes(Tail(s)) ELSE s
RECURSIVE StripTrailSlashes(_)
StripTrailSlashes(s) ==
  IF s # << >> /\ s[Len(s)] = "/" THEN StripTrailSlashes(SubSeq(s, 1, Len(s) - 1)) ELSE s
StripSlashes(s) == StripTrailSlashes(StripLeadSlashes(s))

\* Number.prototype.toString() of a non-negative integer
DigitChar == <<"0","1","2","3","4","5","6","7","8","9">>
RECURSIVE DecStr(_)
DecStr(n) == IF n < 10 THEN <<DigitChar[n + 1]>> ELSE DecStr(n \div 10) \o <<DigitChar[(n % 10) + 1]>>

PadStart(s, width) == [i \in 1..(IF Len(s) < width THEN width - Len(s) ELSE 0) |-> "0"] \o s

\* Date.prototype.toISOString for an instant t (ms since the epoch) below one minute
toISOString(t) ==
  <<"1","9","7","0","-","0","1","-","0","1","T","0","0",":","0","0",":">>
    \o PadStart(DecStr(t \div 1000), 2) \o <<".">> \o PadStart(DecStr(t % 1000), 3) \o <<"Z">>

\* now.toISOString().replace(/[:.]/g, "-")
ColonDotChar(c) == IF c \in {":", "."} THEN <<"-">> ELSE <<c>>
PutTs(t) ==
  LET iso == toISOString(t)
  IN  Concat([i \in 1..Len(iso) |-> ColonDotChar(iso[i])])

(* ------------------------------ literals ------------------------------ *)
L_registration == <<"r","e","g","i","s","t","r","a","t","i","o","n">>
L_sources == <<"s","o","u","r","c","e","s">>
L_coach == <<"c","o","a","c","h">>
L_coachSlash == <<"c","o","a","c","h","/">>
L_dotJson == <<".","j","s","o","n">>
L_regJson == <<"/","r","e","g","i","s","t","r","a","t","i","o","n",".","j","s","o","n">>
L_knowledgeSources == <<"/","k","n","o","w","l","e","d","g","e","/","s","o","u","r","c","e","s","-">>
L_registrations == <<"r","e","g","i","s","t","r","a","t","i","o","n","s","/">>

\* x || y on strings: the empty string is falsy
Or(x, y) == IF x # << >> THEN x ELSE y

(* ------------------------------- state -------------------------------- *)
VARIABLES
  env,      \* process environment: COACH_BUCKET / AWS_REGION set?, COACH_PREFIX
  deploy,   \* which version of each route's handler file is deployed
  store,    \* the bucket: storage key |-> stored JSON body
  now,      \* the clock, in ms since the epoch (Date.now())
  nreq,     \* number of requests served so far
  last,     \* the last request and the response it was answered with
  puts,     \* every /put or /process request answered 200 so far: what it sent and was told
  norm,     \* the owner normalisation under test: its input and what it returned
  ui,       \* the wizard page in the browser: component state, local storage, handlers in flight
  poll      \* the checkS3 call in progress: its options, start time and result

vars == <<env, deploy, store, now, nreq, last, puts, norm, ui, poll>>

\* owner e-mails the clients send
Owners == { <<"a","@","b">>, <<"A","@","b">> }
Kinds == { L_registration, L_sources, << >> }
Fields == {"teamEmail", "contactEmail", "email", "none"}

Envs ==
  { [bucket |-> TRUE,  region |-> TRUE,  prefix |-> << >>],
    [bucket |-> TRUE,  region |-> TRUE,  prefix |-> <<"k","/">>],
    [bucket |-> FALSE, region |-> TRUE,  prefix |-> << >>],
    [bucket |-> FALSE, region |-> FALSE, prefix |-> << >>] }

DefaultEnv == [bucket |-> TRUE, region |-> TRUE, prefix |-> << >>]

\* api/put.ts holds three versions of the /put handler, the registration-status
\* file two different ones; a deployment serves one of each
PutVersions == {"putA", "putB", "putC"}
StatusVersions == {"regKey", "safeId"}
UploadVersions == {"uploadSeq", "uploadAll", "uploadContact"}
\* the routes that write an object themselves
Writers == PutVersions \cup {"process"}

\* the JSON body (or query) of a request; an absent field and an empty one are both << >>
MkBody(kind, field, owner, note) ==
  [ kind         |-> kind,
    teamEmail    |-> IF field \in {"teamEmail", "all"} THEN owner ELSE << >>,
    contactEmail |-> IF field \in {"contactEmail", "all"} THEN owner ELSE << >>,
    email        |-> IF field \in {"email", "all"} THEN owner ELSE << >>,
    key          |-> << >>,
    filesKind    |-> "missing",
    files        |-> << >>,
    note         |-> note ]

EmptyBody == MkBody(<< >>, "none", << >>, 0)

\* a response, and the backend calls the handler made to produce it
Resp(status, ok, key, flag, calls) ==
  [status |-> status, ok |-> ok, key |-> key, flag |-> flag, calls |-> calls,
   listField |-> "none", uploads |-> << >>, rands |-> << >>]

\* the /upload answer: the list of {name, key, url} and the field that carries
\* it; rands are the rand(6) values drawn on the way (they are not sent)
UploadResp(field, uploads, calls, rands) ==
  [status |-> 200, ok |-> TRUE, key |-> << >>, flag |-> "none", calls |-> calls,
   listField |-> field, uploads |-> uploads, rands |-> rands]

\* a response sent before any backend call
Early(status) == Resp(status, FALSE, << >>, "none", << >>)

NoLast ==
  [op |-> "none", method |-> "none", body |-> EmptyBody, at |-> 0, resp |-> Early(0)]

\* a write that is acknowledged and lost
PutObject_Lost(st, key, content) == st

\* s3.send(new PutObjectCommand({Key: key, Body: JSON.stringify(body)}))
PutObject(st, key, content) ==
  [k \in DOMAIN st \cup {key} |-> IF k = key THEN content ELSE st[k]]

\* s3.send(new HeadObjectCommand({Key: key})): found, 404, or any other failure
HeadObject(st, key, fail) ==
  IF fail THEN "error" ELSE IF key \in DOMAIN st THEN "ok" ELSE "notfound"

(* ------------------- /api/put, sanitizeEmail version ------------------ *)
\* `coach/${emailSafe}/${kind}.json`
PutAKey(email, kind) ==
  L_coachSlash \o sanitizeEmail(email) \o <<"/">> \o kind \o L_dotJson

\* the handler with a retry of a failed write
PutAHandler_Retry(method, body, fail) ==
  LET kind  == trim(body.kind)
      email == trim(Or(body.contactEmail, body.teamEmail))
      key   == L_coachSlash \o sanitizeEmail(email) \o <<"/">> \o kind \o L_dotJson
      call(f) == [cmd |-> "PutObject", key |-> key, failed |-> f]
      calls == IF fail THEN <<call(TRUE), call(FALSE)>> ELSE <<call(FALSE)>>
  IN  IF method # "POST" THEN [resp |-> Early(405), store |-> store]
      ELSE IF ~env.bucket THEN [resp |-> Early(500), store |-> store]
      ELSE IF kind = << >> THEN [resp |-> Early(400), store |-> store]
      ELSE IF email = << >> THEN [resp |-> Early(400), store |-> store]
      ELSE [resp |-> Resp(200, TRUE, key, "none", calls), store |-> PutObject(store, key, body)]

PutAHandler(method, body, fail) ==
  LET kind  == trim(body.kind)
      email == trim(Or(body.contactEmail, body.teamEmail))
      key   == PutAKey(email, kind)
      call  == [cmd |-> "PutObject", key |-> key, failed |-> fail]
  IN  IF method # "POST" THEN [resp |-> Early(405), store |-> store]
      ELSE IF ~env.bucket THEN [resp |-> Early(500), store |-> store]
      ELSE IF kind = << >> THEN [resp |-> Early(400), store |-> store]
      ELSE IF email = << >> THEN [resp |-> Early(400), store |-> store]
      ELSE IF fail THEN [resp |-> Resp(500, FALSE, << >>, "none", <<call>>), store |-> store]
      ELSE [resp |-> Resp(200, TRUE, key, "none", <<call>>), store |-> PutObject(store, key, body)]

(* ------------------ /api/put, encodeURIComponent version -------------- *)
\* (process.env.COACH_PREFIX || "coach/").replace(/^\/+|\/+$/g, "") + "/"
PutBPrefix == StripSlashes(Or(env.prefix, L_coachSlash)) \o <<"/">>

PutBKey(teamEmail, kind, t) ==
  IF kind = L_registration
  THEN PutBPrefix \o teamKeyOf(teamEmail) \o L_regJson
  ELSE PutBPrefix \o teamKeyOf(teamEmail) \o L_knowledgeSources \o PutTs(t) \o L_dotJson

PutBHandler(method, body, fail) ==
  LET key  == PutBKey(body.teamEmail, body.kind, now)
      call == [cmd |-> "PutObject", key |-> key, failed |-> fail]
  IN  IF method # "POST" THEN [resp |-> Early(405), store |-> store]
      ELSE IF ~env.bucket THEN [resp |-> Early(500), store |-> store]
      ELSE IF body.kind = << >> THEN [resp |-> Early(400), store |-> store]
      ELSE IF body.teamEmail = << >> THEN [resp |-> Early(400), store |-> store]
      ELSE IF body.kind \notin {L_registration, L_sources} THEN [resp |-> Early(400), store |-> store]
      ELSE IF fail THEN [resp |-> Resp(500, FALSE, << >>, "none", <<call>>), store |-> store]
      ELSE [resp |-> Resp(200, TRUE, key, "none", <<call>>), store |-> PutObject(store, key, body)]

(* ------------------- /api/put, Date.now() version --------------------- *)
\* process.env.COACH_PREFIX || 'coach/'
PutCPrefix == Or(env.prefix, L_coachSlash)

\* `${PREFIX}${kind}/${safeEmail}/${Date.now()}.json`
PutCKey(contactEmail, kind, t) ==
  PutCPrefix \o kind \o <<"/">> \o encodeURIComponent(contactEmail) \o <<"/">> \o DecStr(t) \o L_dotJson

PutCHandler(method, body, fail) ==
  LET contactEmail == Or(body.contactEmail, body.teamEmail)
      key  == PutCKey(contactEmail, body.kind, now)
      call == [cmd |-> "PutObject", key |-> key, failed |-> fail]
  IN  IF method # "POST" THEN [resp |-> Early(405), store |-> store]
      ELSE IF ~env.region THEN [resp |-> Early(500), store |-> store]
      ELSE IF ~env.bucket THEN [resp |-> Early(500), store |-> store]
      ELSE IF body.kind = << >> THEN [resp |-> Early(400), store |-> store]
      ELSE IF contactEmail = << >> THEN [resp |-> Early(400), store |-> store]
      ELSE IF fail THEN [resp |-> Resp(500, FALSE, << >>, "none", <<call>>), store |-> store]
      ELSE [resp |-> Resp(200, TRUE, key, "none", <<call>>), store |-> PutObject(store, key, body)]

(* --------------------- /api/s3, the existence probe ------------------- *)
\* the probe reporting a failed HEAD call as a server error
S3Handler_Strict(method, body, fail) ==
  LET key  == body.key
      head == HeadObject(store, key, fail)
      call == [cmd |-> "HeadObject", key |-> key, failed |-> fail]
  IN  IF method # "POST" THEN Early(405)
      ELSE IF key = << >> THEN Early(400)
      ELSE IF ~env.bucket THEN Early(500)
      ELSE IF head = "ok" THEN Resp(200, TRUE, << >>, "true", <<call>>)
      ELSE IF head = "notfound" THEN Resp(200, TRUE, << >>, "false", <<call>>)
      ELSE Resp(500, FALSE, << >>, "none", <<call>>)

S3Handler(method, body, fail) ==
  LET key  == body.key
      head == HeadObject(store, key, fail)
      call == [cmd |-> "HeadObject", key |-> key, failed |-> fail]
  IN  IF method # "POST" THEN Early(405)
      ELSE IF key = << >> THEN Early(400)
      ELSE IF ~env.bucket THEN Early(500)
      ELSE IF head = "ok" THEN Resp(200, TRUE, << >>, "true", <<call>>)
      ELSE Resp(200, TRUE, << >>, "false", <<call>>)

(* ------------------- registration-status, regKey version -------------- *)
\* `${prefix}/${encodeURIComponent(email)}/registration.json`, prefix = COACH_PREFIX || 'coach'
regKey(email) ==
  Or(env.prefix, L_coach) \o <<"/">> \o encodeURIComponent(email) \o L_regJson

StatusRegKeyHandler(method, body, fail) ==
  LET email == trim(body.email)
      key   == regKey(email)
      head  == HeadObject(store, key, fail)
      call  == [cmd |-> "HeadObject", key |-> key, failed |-> fail]
  IN  IF method # "GET" THEN Early(405)
      ELSE IF ~env.bucket THEN Early(500)
      ELSE IF email = << >> THEN Early(400)
      ELSE IF head = "ok" THEN Resp(200, FALSE, << >>, "true", <<call>>)
      ELSE IF head = "notfound" THEN Resp(200, FALSE, << >>, "false", <<call>>)
      ELSE Resp(500, FALSE, << >>, "none", <<call>>)

(* ------------------- registration-status, safeId version -------------- *)
\* (process.env.COACH_PREFIX || 'coach/').replace(/^\/?/, '').replace(/\/?$/, '/')
SlashEndPrefix ==
  LET p == Or(env.prefix, L_coachSlash)
      a == IF p # << >> /\ Head(p) = "/" THEN Tail(p) ELSE p
  IN  IF a # << >> /\ a[Len(a)] = "/" THEN a ELSE a \o <<"/">>

\* `${PREFIX}registrations/${safeId(email)}/registration.json`
StatusSafeIdKey(email) == SlashEndPrefix \o L_registrations \o safeId(email) \o L_regJson

StatusSafeIdHandler(method, body, fail) ==
  LET email == body.email
      key   == StatusSafeIdKey(email)
      head  == HeadObject(store, key, fail)
      call  == [cmd |-> "HeadObject", key |-> key, failed |-> fail]
  IN  IF ~env.bucket THEN Early(500)
      ELSE IF method # "GET" THEN Early(405)
      ELSE IF email = << >> THEN Early(400)
      ELSE IF head = "ok" THEN Resp(200, FALSE, key, "true", <<call>>)
      ELSE Resp(200, FALSE, << >>, "false", <<call>>)

(* ------------------- /api/upload, sequential version ------------------ *)
L_uploads == <<"/","u","p","l","o","a","d","s","/">>
L_uploadsSlash == <<"u","p","l","o","a","d","s","/">>
L_coachTeams == <<"c","o","a","c","h","/","t","e","a","m","s">>
L_day == <<"1","9","7","0","/","0","1","/","0","1">>
L_file == <<"f","i","l","e","-">>

\* getSignedUrl(s3, new PutObjectCommand({Key: key}), {expiresIn})
SignedUrl(key, expiresIn) == [key |-> key, expiresIn |-> expiresIn]

SignCall(key, failed) == [cmd |-> "getSignedUrl", key |-> key, failed |-> failed]

\* Array.isArray(body.files) ? body.files : []
FilesOf(body) == IF body.filesKind = "array" THEN body.files ELSE << >>

\* `coach/${owner}/uploads/${Date.now()}-${encodeURIComponent(f.name)}`
UploadSeqKey(owner, t, name) ==
  L_coachSlash \o owner \o L_uploads \o DecStr(t) \o <<"-">> \o encodeURIComponent(name)

\* stamps[i] is what Date.now() returns in iteration i; failAt is the first
\* file whose signing call fails (0: none does), where the loop ends
\* the loop answering with the entries it has when a signing call fails
UploadSeqHandler_Partial(method, body, stamps, failAt) ==
  LET email == trim(Or(body.email, Or(body.contactEmail, body.teamEmail)))
      files == FilesOf(body)
      owner == sanitizeEmail(email)
      n     == Len(files)
      key(i) == UploadSeqKey(owner, stamps[i], files[i].name)
      stop  == IF failAt = 0 THEN n ELSE failAt
      done  == IF failAt = 0 THEN n ELSE failAt - 1
      calls == [i \in 1..stop |-> SignCall(key(i), i = failAt)]
  IN  IF method # "POST" THEN Early(405)
      ELSE IF ~env.bucket THEN Early(500)
      ELSE IF email = << >> THEN Early(400)
      ELSE IF n = 0 THEN Early(400)
      ELSE UploadResp("uploads",
             [i \in 1..done |-> [name |-> files[i].name, key |-> key(i), url |-> SignedUrl(key(i), 900)]],
             calls, << >>)

UploadSeqHandler(method, body, stamps, failAt) ==
  LET email == trim(Or(body.email, Or(body.contactEmail, body.teamEmail)))
      files == FilesOf(body)
      owner == sanitizeEmail(email)
      n     == Len(files)
      key(i) == UploadSeqKey(owner, stamps[i], files[i].name)
      stop  == IF failAt = 0 THEN n ELSE failAt
      calls == [i \in 1..stop |-> SignCall(key(i), i = failAt)]
  IN  IF method # "POST" THEN Early(405)
      ELSE IF ~env.bucket THEN Early(500)
      ELSE IF email = << >> THEN Early(400)
      ELSE IF n = 0 THEN Early(400)
      ELSE IF failAt # 0 THEN Resp(500, FALSE, << >>, "none", calls)
      ELSE UploadResp("uploads",
             [i \in 1..n |-> [name |-> files[i].name, key |-> key(i), url |-> SignedUrl(key(i), 900)]],
             calls, << >>)

(* ------------------- /api/upload, Promise.all version ----------------- *)
\* (process.env.COACH_PREFIX || 'coach/teams').replace(/^\/+|\/+$/g, '')
UploadAllPrefix == StripSlashes(Or(env.prefix, L_coachTeams))

\* name.replace(/\s+/g, '_').replace(/[^a-zA-Z0-9._-]/g, '-')
RECURSIVE SpaceRuns(_, _)
SpaceRuns(s, inRun) ==
  IF s = << >> THEN << >>
  ELSE IF Head(s) \in WhiteSpace
       THEN (IF inRun THEN << >> ELSE <<"_">>) \o SpaceRuns(Tail(s), TRUE)
       ELSE <<Head(s)>> \o SpaceRuns(Tail(s), FALSE)
DashChar(c) == IF c \in SanitizeKeep THEN <<c>> ELSE <<"-">>
\* safeFileName without its second replace
safeFileName_SpacesOnly(name) == SpaceRuns(name, FALSE)

safeFileName(name) ==
  LET trimmed == SpaceRuns(name, FALSE)
  IN  Concat([i \in 1..Len(trimmed) |-> DashChar(trimmed[i])])

\* what Math.random().toString(16).slice(2, 8) can return
RandVals == { <<"1","f">>, <<"c","0">> }

\* `${PREFIX}/uploads/${userId}/${dayPath}/${Date.now()}-${rand(6)}-${baseName}`
UploadAllKey(userId, t, r, name) ==
  UploadAllPrefix \o L_uploads \o userId \o <<"/">> \o L_day \o <<"/">>
    \o DecStr(t) \o <<"-">> \o r \o <<"-">> \o safeFileName(name)

\* every callback of files.map runs to its await in one synchronous pass at
\* instant t, so every signing call is made; failAt is the first to fail (0: none);
\* nameRands[i] is the rand(6) drawn for a file without a name
UploadAllHandler(method, body, t, rands, nameRands, failAt) ==
  LET email == body.email
      files == body.files
      userId == safeId(email)
      n     == Len(files)
      name(i) == IF files[i].name # << >> THEN files[i].name ELSE L_file \o nameRands[i]
      key(i) == UploadAllKey(userId, t, rands[i], name(i))
      calls == [i \in 1..n |-> SignCall(key(i), i = failAt)]
  IN  IF ~env.bucket THEN Early(500)
      ELSE IF method # "POST" THEN Early(405)
      ELSE IF email = << >> THEN Early(400)
      ELSE IF body.filesKind # "array" \/ n = 0 THEN Early(400)
      ELSE IF failAt # 0 THEN Resp(500, FALSE, << >>, "none", calls)
      ELSE UploadResp("uploads",
             [i \in 1..n |-> [name |-> files[i].name, key |-> key(i), url |-> SignedUrl(key(i), 15 * 60)]],
             calls, rands)

(* ------------------- /api/upload, contactEmail version ---------------- *)
Range(seq) == {seq[i] : i \in DOMAIN seq}

\* `${PREFIX}uploads/${safeEmail}/${encodeURIComponent(f.name)}`, PREFIX = COACH_PREFIX || 'coach/'
UploadContactKey(safeEmail, name) ==
  Or(env.prefix, L_coachSlash) \o L_uploadsSlash \o safeEmail \o <<"/">> \o encodeURIComponent(name)

\* the handler without its check of the file list
UploadContactHandler_EmptyOk(method, body, failAt) ==
  LET contactEmail == Or(body.contactEmail, body.teamEmail)
      files == FilesOf(body)
      safeEmail == encodeURIComponent(contactEmail)
      n     == Len(files)
      key(i) == Or(env.prefix, L_coachSlash) \o L_uploadsSlash \o safeEmail \o <<"/">>
                  \o encodeURIComponent(files[i].name)
      named == SelectSeq([i \in 1..n |-> i], LAMBDA i : files[i].name # << >>)
      calls == [j \in 1..Len(named) |-> SignCall(key(named[j]), named[j] = failAt)]
      threw == Len(named) < n \/ failAt \in Range(named)
  IN  IF method # "POST" THEN Early(405)
      ELSE IF ~env.region THEN Early(500)
      ELSE IF ~env.bucket THEN Early(500)
      ELSE IF contactEmail = << >> THEN Early(400)
      ELSE IF threw THEN Resp(500, FALSE, << >>, "none", calls)
      ELSE UploadResp("presigned",
             [i \in 1..n |-> [name |-> files[i].name, key |-> key(i), url |-> SignedUrl(key(i), 60 * 10)]],
             calls, << >>)

UploadContactHandler(method, body, failAt) ==
  LET contactEmail == Or(body.contactEmail, body.teamEmail)
      files == FilesOf(body)
      safeEmail == encodeURIComponent(contactEmail)
      n     == Len(files)
      key(i) == UploadContactKey(safeEmail, files[i].name)
      named == SelectSeq([i \in 1..n |-> i], LAMBDA i : files[i].name # << >>)
      calls == [j \in 1..Len(named) |-> SignCall(key(named[j]), named[j] = failAt)]
      threw == Len(named) < n \/ failAt \in Range(named)
  IN  IF method # "POST" THEN Early(405)
      ELSE IF ~env.region THEN Early(500)
      ELSE IF ~env.bucket THEN Early(500)
      ELSE IF contactEmail = << >> THEN Early(400)
      ELSE IF n = 0 THEN Early(400)
      ELSE IF threw THEN Resp(500, FALSE, << >>, "none", calls)
      ELSE UploadResp("presigned",
             [i \in 1..n |-> [name |-> files[i].name, key |-> key(i), url |-> SignedUrl(key(i), 60 * 10)]],
             calls, << >>)

(* ----------------------------- /api/process --------------------------- *)
L_processing == <<"p","r","o","c","e","s","s","i","n","g">>
L_trigger == <<"t","r","i","g","g","e","r","-">>
\* JSON null, which no string of characters equals
Null == <<"null">>

\* parts.filter(Boolean).map(p => p.replace(/^\/+|\/+$/g, "")).join("/")
RECURSIVE JoinSlash(_)
JoinSlash(parts) ==
  IF parts = << >> THEN << >>
  ELSE IF Len(parts) = 1 THEN Head(parts)
  ELSE Head(parts) \o <<"/">> \o JoinSlash(Tail(parts))

keyJoin(parts) ==
  LET kept == SelectSeq(parts, LAMBDA q : q # << >>)
  IN  JoinSlash([i \in 1..Len(kept) |-> StripSlashes(kept[i])])

\* d.toISOString().replace(/[-:.]/g, "").slice(0, 15) + "Z"
ts(t) ==
  LET bare == SelectSeq(toISOString(t), LAMBDA c : c \notin {"-", ":", "."})
  IN  SubSeq(bare, 1, 15) \o <<"Z">>

\* (process.env.COACH_PREFIX || "coach/teams").replace(/^\/+|\/+$/g, "")
ProcessPrefix == StripSlashes(Or(env.prefix, L_coachTeams))

ProcessKey(teamEmail, t) ==
  keyJoin(<<ProcessPrefix, teamEmail, L_processing, L_trigger \o ts(t) \o L_dotJson>>)

\* { teamEmail, sourcesKey: sourcesKey || null, at: new Date().toISOString() }
Marker(body, t) ==
  [teamEmail |-> body.teamEmail, sourcesKey |-> Or(body.sourcesKey, Null), at |-> toISOString(t)]

ProcessBody(teamEmail, sourcesKey) == [teamEmail |-> teamEmail, sourcesKey |-> sourcesKey]

\* /process writing its marker before it has looked at teamEmail
ProcessHandler_Eager(method, body, fail) ==
  LET key  == ProcessKey(body.teamEmail, now)
      call == [cmd |-> "PutObject", key |-> key, failed |-> fail]
  IN  IF method # "POST" THEN [resp |-> Early(405), store |-> store]
      ELSE IF ~env.bucket THEN [resp |-> Early(500), store |-> store]
      ELSE IF fail THEN [resp |-> Resp(500, FALSE, << >>, "none", <<call>>), store |-> store]
      ELSE IF body.teamEmail = << >>
        THEN [resp |-> Resp(400, FALSE, << >>, "none", <<call>>),
              store |-> PutObject(store, key, Marker(body, now))]
      ELSE [resp |-> Resp(200, TRUE, key, "none", <<call>>),
            store |-> PutObject(store, key, Marker(body, now))]

ProcessHandler(method, body, fail) ==
  LET key  == ProcessKey(body.teamEmail, now)
      call == [cmd |-> "PutObject", key |-> key, failed |-> fail]
  IN  IF method # "POST" THEN [resp |-> Early(405), store |-> store]
      ELSE IF ~env.bucket THEN [resp |-> Early(500), store |-> store]
      ELSE IF body.teamEmail = << >> THEN [resp |-> Early(400), store |-> store]
      ELSE IF fail THEN [resp |-> Resp(500, FALSE, << >>, "none", <<call>>), store |-> store]
      ELSE [resp |-> Resp(200, TRUE, key, "none", <<call>>),
            store |-> PutObject(store, key, Marker(body, now))]

(* ------------------- the client helper checkS3 ------------------------ *)
\* exists(key): true when res.ok, false on a 404, "error" on any other answer
\* and when the request does not get through
ExistsOf(reached, resp) ==
  IF ~reached THEN "error"
  ELSE IF resp.status \in 200..299 THEN "true"
  ELSE IF resp.status = 404 THEN "false"
  ELSE "error"

PollResult(state, key, probes) == [state |-> state, key |-> key, probes |-> probes]

\* one call of checkS3 against the /api/s3 handler, up to its first return or
\* its first sleep; failS, failF: the backend HEAD call of that probe fails
checkS3(successKey, failureKey, timeoutMs, reached, failS, failF) ==
  LET rs   == S3Handler("POST", [EmptyBody EXCEPT !.key = successKey], failS)
      rf   == S3Handler("POST", [EmptyBody EXCEPT !.key = failureKey], failF)
      succ == ExistsOf(reached, rs)
      fail == ExistsOf(reached, rf)
  IN  IF ~(0 < timeoutMs) THEN PollResult("timeout", << >>, << >>)
      ELSE IF succ = "true" THEN PollResult("success", successKey, <<rs>>)
      ELSE IF succ = "error" THEN PollResult("error", << >>, <<rs>>)
      ELSE IF fail = "true" THEN PollResult("failed", failureKey, <<rs, rf>>)
      ELSE IF fail = "error" THEN PollResult("error", << >>, <<rs, rf>>)
      ELSE PollResult("sleeping", << >>, <<rs, rf>>)

(* ------------------- the wizard page, home.tsx ------------------------ *)
\* the versions of utils/s3 the page can be bundled with
HelperVersions == {"utils", "part_001", "part_002"}

emptyForm ==
  [teamName |-> << >>, department |-> << >>, domain |-> "", contactEmail |-> << >>]

\* what the user may have typed into the registration form
RegForms ==
  { emptyForm,
    [teamName |-> <<"t">>, department |-> <<"d">>, domain |-> "HR",
     contactEmail |-> <<"a","@","b",".","c">>],
    [teamName |-> <<"t">>, department |-> <<"d">>, domain |-> "Select domain",
     contactEmail |-> <<"a","@","b">>] }

\* /^[^\s@]+@[^\s@]+\.[^\s@]+$/
EMAIL_RE(s) ==
  \E i \in 1..Len(s), j \in 1..Len(s) :
    /\ s[i] = "@" /\ s[j] = "."
    /\ 1 < i /\ i + 1 < j /\ j < Len(s)
    /\ \A k \in 1..Len(s) : s[k] \notin WhiteSpace /\ (s[k] = "@" => k = i)

\* the fields validateRegistration reports an error for
validateRegistration(m) ==
  {f \in {"teamName", "department"} : trim(m[f]) = << >>}
    \cup (IF m.domain = "" \/ m.domain = "Select domain" THEN {"domain"} ELSE {})
    \cup (IF trim(m.contactEmail) = << >> \/ ~EMAIL_RE(m.contactEmail)
          THEN {"contactEmail"} ELSE {})

emptyConfluence == [sourceName |-> << >>, url |-> << >>]
emptyFiles == [sourceName |-> << >>, files |-> << >>]

validateConfluence(m) == {f \in {"sourceName", "url"} : trim(m[f]) = << >>}
validateFiles(m) == {f \in {"sourceName"} : trim(m[f]) = << >>}

\* localStorage before the page ever wrote to it: getItem returns null
NoStorage == [regDone |-> "null", knowledgeDone |-> "null"]

\* what has happened in this browser so far: the flags ever persisted as "1",
\* and whether a registration /put was ever answered 2xx
NoHist == [locked |-> {}, stored |-> FALSE]

\* one run of onSubmitKnowledge: the pane it was started from, the number of
\* attached files, how presign went, the files uploaded, whether the
\* manifest write was issued, whether the run set knowledgeDone, whether it
\* has returned
NoRun ==
  [from |-> "none", files |-> 0, presign |-> "none", uploaded |-> 0,
   manifest |-> FALSE, done |-> FALSE, finished |-> FALSE]

\* the component after its first render: every useState at its initial value,
\* the mount effects still to run
Home(client, ls, hist) ==
  [ client |-> client, phase |-> "mounted", section |-> "onboard",
    reg |-> emptyForm, regSubmitting |-> FALSE, regDone |-> FALSE,
    conf |-> emptyConfluence, filesModel |-> emptyFiles,
    filesUploading |-> FALSE, knowledgeSubmitting |-> FALSE, knowledgeDone |-> FALSE,
    restore |-> [regDone |-> FALSE, knowledgeDone |-> FALSE],
    pcReg |-> "idle", regRequest |-> << >>,
    pcKn |-> "idle", knRequest |-> << >>, run |-> NoRun,
    ls |-> ls, hist |-> hist ]

\* no page is open
NoUi == [Home("utils", NoStorage, NoHist) EXCEPT !.phase = "closed"]

\* the effect on []: a stored "1" schedules setRegDone(true) / setKnowledgeDone(true)
MountEffect(u) ==
  [u EXCEPT !.restore = [regDone |-> u.ls.regDone = "1",
                         knowledgeDone |-> u.ls.knowledgeDone = "1"],
            !.phase = IF u.ls.regDone = "1" \/ u.ls.knowledgeDone = "1"
                      THEN "restoring" ELSE "settled"]

\* the effect on [regDone, knowledgeDone]: both flags are written, "1" or "0",
\* as the render that scheduled the effect saw them
PersistEffect(u) ==
  [u EXCEPT !.ls = [regDone |-> IF u.regDone THEN "1" ELSE "0",
                    knowledgeDone |-> IF u.knowledgeDone THEN "1" ELSE "0"],
            !.hist.locked = @ \cup {f \in {"regDone", "knowledgeDone"} : u[f]}]

\* the render the mount effect asked for, and the effects it schedules
Rerendered(u) ==
  PersistEffect([u EXCEPT !.regDone = @ \/ u.restore.regDone,
                          !.knowledgeDone = @ \/ u.restore.knowledgeDone,
                          !.phase = "settled"])

\* `teams/${reg.teamName || "team"}/${doc}`
TeamsKey(teamName, doc) ==
  Concat(<< <<"t","e","a","m","s","/">>, Or(teamName, <<"t","e","a","m">>), doc >>)

\* the promise of putS3({key, body, contentType}): fetch rejects when the
\* request does not get through; utils/s3.ts throws unless res.ok, the other
\* two versions return the Response whatever its status
putS3(version, reached, resp) ==
  IF ~reached THEN "threw"
  ELSE IF version = "utils" /\ resp.status \notin 200..299 THEN "threw"
  ELSE "resolved"

\* the call presignFiles(descriptors) of home.tsx:1322: part_001 and part_002
\* declare presignFiles(email, files), so the one argument is bound to email and
\* files is undefined (Array.from(undefined), undefined.map throw a TypeError);
\* utils/s3.ts exports no presignFiles. No request is sent.
WizardPresign(version, nargs) ==
  IF version = "utils" \/ nargs < 2 THEN "threw" ELSE "resolved"

\* onSubmitRegistration up to its await
onSubmitRegistration(u) ==
  IF validateRegistration(u.reg) # {} THEN u
  ELSE [u EXCEPT !.regSubmitting = TRUE, !.pcReg = "put",
                 !.regRequest = TeamsKey(u.reg.teamName, L_regJson)]

\* onSubmitRegistration from the await of putS3 on: settled is how the promise ended
RegistrationAwait(u, settled) ==
  LET v == IF settled = "resolved" THEN PersistEffect([u EXCEPT !.regDone = TRUE]) ELSE u
  IN  [v EXCEPT !.regSubmitting = FALSE, !.pcReg = "idle", !.regRequest = << >>]

\* `/knowledge-sources.json`
L_knowledgeJson ==
  <<"/","k","n","o","w","l","e","d","g","e","-">> \o L_sources \o L_dotJson

\* onSubmitKnowledge(from) up to its first await
onSubmitKnowledge(u, from) ==
  LET errs == IF from = "confluence" THEN validateConfluence(u.conf)
              ELSE validateFiles(u.filesModel)
      n    == Len(u.filesModel.files)
      run  == [NoRun EXCEPT !.from = from, !.files = n]
  IN  IF errs # {} THEN [u EXCEPT !.run = [run EXCEPT !.finished = TRUE]]
      ELSE IF from = "files" /\ n > 0
        THEN [u EXCEPT !.knowledgeSubmitting = TRUE, !.filesUploading = TRUE,
                       !.pcKn = "presign", !.run = run]
      ELSE [u EXCEPT !.knowledgeSubmitting = TRUE, !.pcKn = "put",
                     !.knRequest = TeamsKey(u.reg.teamName, L_knowledgeJson),
                     !.run = [run EXCEPT !.manifest = TRUE]]

\* onSubmitKnowledge from the await it stands at on: presignFiles,
\* uploadWithPresigned, putS3; a rejection goes to catch and finally
KnowledgeAwait(u, settled) ==
  IF settled = "threw"
    THEN [u EXCEPT !.knowledgeSubmitting = FALSE, !.pcKn = "idle", !.knRequest = << >>,
                   !.run.presign = IF u.pcKn = "presign" THEN "failed" ELSE @,
                   !.run.finished = TRUE]
  ELSE IF u.pcKn = "presign" THEN [u EXCEPT !.pcKn = "upload", !.run.presign = "ok"]
  ELSE IF u.pcKn = "upload"
    THEN [u EXCEPT !.filesUploading = FALSE, !.pcKn = "put",
                   !.knRequest = TeamsKey(u.reg.teamName, L_knowledgeJson),
                   !.run.uploaded = u.run.files, !.run.manifest = TRUE]
  ELSE PersistEffect([u EXCEPT !.knowledgeDone = TRUE, !.knowledgeSubmitting = FALSE,
                               !.pcKn = "idle", !.knRequest = << >>,
                               !.run.done = TRUE, !.run.finished = TRUE])

(* --------------------- the loop of checkS3 ---------------------------- *)
\* a call of checkS3: where it stands, its options, Date.now() at its start,
\* the instant its sleep ends, the rounds slept, whether a probe reported a
\* key present or failed, and the state it returned, with the instant it did
NoPoll ==
  [pc |-> "idle", timeoutMs |-> 0, intervalMs |-> 0, start |-> 0, wake |-> 0,
   rounds |-> 0, present |-> FALSE, errored |-> FALSE, state |-> "none", at |-> 0]

\* rounds beyond this many are counted as this many
MaxRounds == 2

\* the clock of the polling page: instants from the horizon on are not told apart
PollHorizon == MaxMs + 2

PollReturn(p, t, state) == [p EXCEPT !.pc = "returned", !.state = state, !.at = t]

\* checkS3 leaving its loop after the first round whatever the time
PollStep_Once(p, t, e) ==
  IF p.pc = "while"
    THEN IF t - p.start < p.timeoutMs /\ p.rounds = 0
           THEN [p EXCEPT !.pc = "existsSuccess"]
         ELSE PollReturn(p, t, "timeout")
  ELSE IF p.pc = "sleep" THEN [p EXCEPT !.pc = "while"]
  ELSE IF e = "true"
    THEN PollReturn([p EXCEPT !.present = TRUE], t,
                    IF p.pc = "existsSuccess" THEN "success" ELSE "failed")
  ELSE IF e = "error" THEN PollReturn([p EXCEPT !.errored = TRUE], t, "error")
  ELSE IF p.pc = "existsSuccess" THEN [p EXCEPT !.pc = "existsFailure"]
  ELSE [p EXCEPT !.pc = "sleep",
                 !.wake = IF t + p.intervalMs < PollHorizon THEN t + p.intervalMs
                          ELSE PollHorizon,
                 !.rounds = IF @ < MaxRounds THEN @ + 1 ELSE @]

\* checkS3 from the point p.pc on, up to its next await or its return: the test
\* of the while loop at Date.now() = t, the answer e of exists(successKey) or
\* exists(failureKey), or the end of the sleep
PollStep(p, t, e) ==
  IF p.pc = "while"
    THEN IF t - p.start < p.timeoutMs THEN [p EXCEPT !.pc = "existsSuccess"]
         ELSE PollReturn(p, t, "timeout")
  ELSE IF p.pc = "sleep" THEN [p EXCEPT !.pc = "while"]
  ELSE IF e = "true"
    THEN PollReturn([p EXCEPT !.present = TRUE], t,
                    IF p.pc = "existsSuccess" THEN "success" ELSE "failed")
  ELSE IF e = "error" THEN PollReturn([p EXCEPT !.errored = TRUE], t, "error")
  ELSE IF p.pc = "existsSuccess" THEN [p EXCEPT !.pc = "existsFailure"]
  ELSE [p EXCEPT !.pc = "sleep",
                 !.wake = IF t + p.intervalMs < PollHorizon THEN t + p.intervalMs
                          ELSE PollHorizon,
                 !.rounds = IF @ < MaxRounds THEN @ + 1 ELSE @]

(* ------------------------------ actions ------------------------------- *)
NoNorm == [fn |-> "none", input |-> << >>, once |-> << >>, twice |-> << >>]

\* a fresh process serving an empty bucket
InitDeployed(envs, deployments) ==
  /\ env \in envs
  /\ deploy \in deployments
  /\ norm = NoNorm
  /\ ui = NoUi
  /\ poll = NoPoll
  /\ store = << >>
  /\ now = 0
  /\ nreq = 0
  /\ last = NoLast
  /\ puts = {}

Init == InitDeployed(Envs, [put : PutVersions, status : StatusVersions, upload : {"uploadSeq"}])

\* one request served: the response is recorded, the store takes the writes
Serve(limit, op, method, body, resp, st) ==
  /\ nreq < limit
  /\ nreq' = nreq + 1
  /\ store' = st
  /\ norm' = norm
  /\ last' = [op |-> op, method |-> method, body |-> body, at |-> now, resp |-> resp]
  /\ puts' = IF op \in Writers /\ resp.status = 200
             THEN puts \cup {[op |-> op, body |-> body, key |-> resp.key, at |-> now]}
             ELSE puts
  /\ UNCHANGED <<env, deploy, ui, poll>>

\* the requests clients send: a POST with a JSON body, or a bodyless GET
PutRequests(kinds, fields, owners) ==
  {[method |-> "POST", body |-> MkBody(k, f, o, nreq + 1)] : k \in kinds, f \in fields, o \in owners}
    \cup {[method |-> "GET", body |-> EmptyBody]}

PutA(reqs) ==
  /\ deploy.put = "putA"
  /\ \E q \in reqs, fail \in BOOLEAN :
       LET r == PutAHandler(q.method, q.body, fail)
       IN  Serve(MaxReq, "putA", q.method, q.body, r.resp, r.store) /\ now' = now

PutB(reqs) ==
  /\ deploy.put = "putB"
  /\ \E q \in reqs, fail \in BOOLEAN :
       LET r == PutBHandler(q.method, q.body, fail)
       IN  Serve(MaxReq, "putB", q.method, q.body, r.resp, r.store) /\ now' = now

PutC(reqs) ==
  /\ deploy.put = "putC"
  /\ \E q \in reqs, fail \in BOOLEAN :
       LET r == PutCHandler(q.method, q.body, fail)
       IN  Serve(MaxReq, "putC", q.method, q.body, r.resp, r.store) /\ now' = now

\* keys a client may probe: every stored one, one never written, and none at all
ProbeKeys == DOMAIN store \cup {p.key : p \in puts} \cup { <<"x">>, << >> }

S3Probe ==
  \E k \in ProbeKeys, m \in {"POST", "GET"}, fail \in BOOLEAN :
    LET body == [EmptyBody EXCEPT !.key = k]
    IN  Serve(MaxReq, "s3", m, body, S3Handler(m, body, fail), store) /\ now' = now

StatusRegKey ==
  /\ deploy.status = "regKey"
  /\ \E o \in Owners \cup {<< >>}, m \in {"POST", "GET"}, fail \in BOOLEAN :
       LET body == MkBody(<< >>, "email", o, 0)
       IN  Serve(MaxReq, "statusRegKey", m, body, StatusRegKeyHandler(m, body, fail), store) /\ now' = now

StatusSafeId ==
  /\ deploy.status = "safeId"
  /\ \E o \in Owners \cup {<< >>}, m \in {"POST", "GET"}, fail \in BOOLEAN :
       LET body == MkBody(<< >>, "email", o, 0)
       IN  Serve(MaxReq, "statusSafeId", m, body, StatusSafeIdHandler(m, body, fail), store) /\ now' = now

\* time passes
Instants == 0..MaxMs
Tick ==
  /\ \E t \in Instants : t > now /\ now' = t
  /\ UNCHANGED <<env, deploy, store, nreq, last, puts, norm, ui, poll>>

\* clients that name the owner in teamEmail, which every /put version reads
TeamEmailRequests == PutRequests(Kinds, {"teamEmail"}, Owners)

Next ==
  \/ PutA(TeamEmailRequests)
  \/ PutB(TeamEmailRequests)
  \/ PutC(TeamEmailRequests)
  \/ S3Probe
  \/ StatusRegKey
  \/ StatusSafeId
  \/ Tick

Spec == Init /\ [][Next]_vars

(* ---------------- /put with the owner under each field name ----------- *)
FieldRequests == PutRequests({L_registration, << >>}, Fields, {<<"a","@","b">>})

NextFields ==
  \/ PutA(FieldRequests)
  \/ PutB(FieldRequests)
  \/ PutC(FieldRequests)
  \/ Tick

SpecFields == Init /\ [][NextFields]_vars

(* ------------------------------ /upload ------------------------------- *)
FileNames == { <<"a">>, <<"b"," ">> }
FileLists == {[i \in 1..Len(ns) |-> [name |-> ns[i]]] : ns \in SeqsUpTo(FileNames, MaxFiles)}

\* the client helper sends the owner under all three names (ensureEmailFields);
\* other clients send it under one name, or send no proper file list
UploadBodies ==
  {[MkBody(<< >>, "all", <<"a","@","b">>, 0) EXCEPT !.filesKind = "array", !.files = fs] :
      fs \in FileLists}
  \cup {[MkBody(<< >>, f, <<"a","@","b">>, 0) EXCEPT !.filesKind = k] :
      f \in Fields, k \in {"missing", "notArray", "array"}}

UploadRequests ==
  {[method |-> "POST", body |-> b] : b \in UploadBodies} \cup {[method |-> "GET", body |-> EmptyBody]}

\* what Date.now() can return in the n successive iterations of one request:
\* the first runs on arrival, every later one after an await
Stamps(n) == {st \in [1..n -> Instants] :
                \A i \in 1..n : (i = 1 => st[i] = now) /\ (i < n => st[i] <= st[i + 1])}

\* the clock after a request that read it once per signing call
After(resp, stamps) == IF resp.calls = << >> THEN now ELSE stamps[Len(resp.calls)]

\* the files of a request that carry no name
Nameless(files) == {i \in DOMAIN files : files[i].name = << >>}

\* presigning that also creates the object it signs for
UploadSeq_Creates(reqs, limit) ==
  /\ deploy.upload = "uploadSeq"
  /\ \E q \in reqs :
       \E stamps \in Stamps(Len(q.body.files)), failAt \in 0..Len(q.body.files) :
         LET r  == UploadSeqHandler(q.method, q.body, stamps, failAt)
             st == IF r.uploads = << >> THEN store
                   ELSE PutObject(store, r.uploads[1].key, [file |-> << >>])
         IN  Serve(limit, "uploadSeq", q.method, q.body, r, st) /\ now' = After(r, stamps)

UploadSeq(reqs, limit) ==
  /\ deploy.upload = "uploadSeq"
  /\ \E q \in reqs :
       \E stamps \in Stamps(Len(q.body.files)), failAt \in 0..Len(q.body.files) :
         LET r == UploadSeqHandler(q.method, q.body, stamps, failAt)
         IN  Serve(limit, "uploadSeq", q.method, q.body, r, store) /\ now' = After(r, stamps)

UploadAll(reqs, limit) ==
  /\ deploy.upload = "uploadAll"
  /\ \E q \in reqs :
       \E rands \in [1..Len(q.body.files) -> RandVals],
          nameRands \in [Nameless(q.body.files) -> RandVals],
          failAt \in 0..Len(q.body.files) :
         LET r == UploadAllHandler(q.method, q.body, now, rands, nameRands, failAt)
         IN  Serve(limit, "uploadAll", q.method, q.body, r, store) /\ now' = now

UploadContact(reqs, limit) ==
  /\ deploy.upload = "uploadContact"
  /\ \E q \in reqs :
       \E failAt \in 0..Len(q.body.files) :
         LET r == UploadContactHandler(q.method, q.body, failAt)
         IN  Serve(limit, "uploadContact", q.method, q.body, r, store) /\ now' = now

\* /upload is served with the default prefix, with and without a bucket
UploadEnvs == {e \in Envs : e.prefix = << >>}

InitUpload ==
  InitDeployed(UploadEnvs, [put : {"putB"}, status : {"regKey"}, upload : UploadVersions])

NextUpload ==
  \/ UploadSeq(UploadRequests, MaxUploads)
  \/ UploadAll(UploadRequests, MaxUploads)
  \/ UploadContact(UploadRequests, MaxUploads)
  \/ Tick

SpecUpload == InitUpload /\ [][NextUpload]_vars

(* ------------------- /upload of files without a name ------------------ *)
\* lists in which a descriptor may carry the empty name
MaybeNamed == { << >>, <<"a">> }

NamelessRequests ==
  {[method |-> "POST",
    body |-> [MkBody(<< >>, "all", <<"a","@","b">>, 0) EXCEPT
                !.filesKind = "array",
                !.files = [i \in 1..Len(ns) |-> [name |-> ns[i]]]]] :
      ns \in SeqsUpTo(MaybeNamed, MaxFiles) \ {<< >>}}

NextNames ==
  \/ UploadSeq(NamelessRequests, MaxUploads)
  \/ UploadAll(NamelessRequests, MaxUploads)
  \/ UploadContact(NamelessRequests, MaxUploads)
  \/ Tick

SpecNames == InitUpload /\ [][NextNames]_vars

(* ---------------- /upload and the browser's PUT of the files ---------- *)
\* the bucket outlives the server: it may hold a file from an earlier run
FileObject(name) == [file |-> name]
EarlierStores == {<< >>, PutObject(<< >>, <<"x">>, FileObject(<<"x">>))}

\* the wizard presigns the files the user picked: "a", "b ", "a", ...
PickedFiles(n) == [i \in 1..n |-> [name |-> IF i % 2 = 1 THEN <<"a">> ELSE <<"b", " ">>]]

PresignRequests ==
  {[method |-> "POST",
    body |-> [MkBody(<< >>, "all", <<"a","@","b">>, 0) EXCEPT !.filesKind = "array",
                                                              !.files = PickedFiles(n)]] :
      n \in 0..MaxFiles}

InitPresign ==
  /\ env \in UploadEnvs
  /\ deploy \in [put : {"putB"}, status : {"regKey"}, upload : UploadVersions]
  /\ norm = NoNorm
  /\ ui = NoUi
  /\ poll = NoPoll
  /\ store \in EarlierStores
  /\ now = 0
  /\ nreq = 0
  /\ last = NoLast
  /\ puts = {}

\* uploadWithPresigned: the browser PUTs a file on a URL the last answer issued
UploadWithPresigned ==
  /\ last.op \in UploadVersions
  /\ \E i \in DOMAIN last.resp.uploads :
       store' = PutObject(store, last.resp.uploads[i].url.key,
                          FileObject(last.resp.uploads[i].name))
  /\ UNCHANGED <<env, deploy, now, nreq, last, puts, norm, ui, poll>>

NextPresign ==
  \/ UploadSeq(PresignRequests, MaxUploads)
  \/ UploadAll(PresignRequests, MaxUploads)
  \/ UploadContact(PresignRequests, MaxUploads)
  \/ UploadWithPresigned
  \/ Tick

SpecPresign == InitPresign /\ [][NextPresign]_vars

(* ------------------------ /process on its own ------------------------- *)
ProcessRequests ==
  {[method |-> "POST", body |-> ProcessBody(e, k)] :
      e \in {<<"a","@","b">>, << >>}, k \in {<<"s">>, << >>}}
    \cup {[method |-> "GET", body |-> ProcessBody(<< >>, << >>)]}

Process ==
  \E q \in ProcessRequests, fail \in BOOLEAN :
    LET r == ProcessHandler(q.method, q.body, fail)
    IN  Serve(MaxReq, "process", q.method, q.body, r.resp, r.store) /\ now' = now

InitProcess ==
  InitDeployed(Envs, [put : {"putB"}, status : {"regKey"}, upload : {"uploadSeq"}])

NextProcess == Process \/ Tick

SpecProcess == InitProcess /\ [][NextProcess]_vars

(* ------------------- polling for a sentinel object -------------------- *)
\* the keys at which the pipeline behind the bucket reports success or failure
SuccessKey == <<"o","k">>
FailureKey == <<"k","o">>

\* the bucket as the pipeline has left it
SentinelStores ==
  { << >>,
    PutObject(<< >>, SuccessKey, [done |-> TRUE]),
    PutObject(<< >>, FailureKey, [done |-> FALSE]) }

PollBody(successKey, failureKey, timeoutMs) ==
  [successKey |-> successKey, failureKey |-> failureKey, timeoutMs |-> timeoutMs]

\* opts.timeoutMs ?? 300_000
Timeouts == {0, 300000}

CheckS3 ==
  \E sk \in {SuccessKey, << >>}, fk \in {FailureKey}, tmo \in Timeouts,
     reached \in BOOLEAN, failS \in BOOLEAN, failF \in BOOLEAN :
    LET r == checkS3(sk, fk, tmo, reached, failS, failF)
        calls == Concat([i \in 1..Len(r.probes) |-> r.probes[i].calls])
    IN  /\ Serve(MaxReq, "checkS3", "POST", PollBody(sk, fk, tmo),
                 Resp(0, FALSE, r.key, r.state, calls), store)
        /\ now' = now

InitPoll ==
  /\ env \in Envs
  /\ deploy = [put |-> "putB", status |-> "regKey", upload |-> "uploadSeq"]
  /\ norm = NoNorm
  /\ ui = NoUi
  /\ poll = NoPoll
  /\ store \in SentinelStores
  /\ now = 0
  /\ nreq = 0
  /\ last = NoLast
  /\ puts = {}

NextPoll == CheckS3 \/ Tick

SpecPoll == InitPoll /\ [][NextPoll]_vars

(* --------------- owners that leave nothing after normalisation -------- *)
\* a blank, a lone "@", and an ordinary address
OddOwners == { <<" ">>, <<"@">>, <<"a","@","b">> }

OddPutRequests == PutRequests({L_registration}, {"teamEmail"}, OddOwners)

OddUploadRequests ==
  {[method |-> "POST",
    body |-> [MkBody(<< >>, "all", o, 0) EXCEPT !.filesKind = "array", !.files = PickedFiles(1)]] :
      o \in OddOwners}

InitOwners ==
  InitDeployed({DefaultEnv}, [put : PutVersions, status : {"regKey"}, upload : UploadVersions])

NextOwners ==
  \/ PutA(OddPutRequests)
  \/ PutB(OddPutRequests)
  \/ PutC(OddPutRequests)
  \/ UploadSeq(OddUploadRequests, MaxUploads)
  \/ UploadAll(OddUploadRequests, MaxUploads)
  \/ UploadContact(OddUploadRequests, MaxUploads)
  \/ Tick

SpecOwners == InitOwners /\ [][NextOwners]_vars

(* ----------------------- owner normalisations ------------------------- *)
\* the strings a client can send as the owner
InputStrings == SeqsUpTo(Alphabet, MaxLen)

InitNorm ==
  /\ env = DefaultEnv
  /\ deploy = [put |-> "putB", status |-> "safeId", upload |-> "uploadAll"]
  /\ norm \in {[NoNorm EXCEPT !.input = x] : x \in InputStrings}
  /\ ui = NoUi
  /\ poll = NoPoll
  /\ store = << >>
  /\ now = 0
  /\ nreq = 0
  /\ last = NoLast
  /\ puts = {}

\* the handler normalises the owner; a second pass stands for a caller that
\* hands an already normalised owner back in
Normalise(fn, once, twice) ==
  /\ norm.fn = "none"
  /\ norm' = [fn |-> fn, input |-> norm.input, once |-> once, twice |-> twice]
  /\ UNCHANGED <<env, deploy, store, now, nreq, last, puts, ui, poll>>

NormSafeId == Normalise("safeId", safeId(norm.input), safeId(safeId(norm.input)))
NormSanitizeEmail ==
  Normalise("sanitizeEmail", sanitizeEmail(norm.input), sanitizeEmail(sanitizeEmail(norm.input)))
NormTeamKey == Normalise("teamKey", teamKeyOf(norm.input), teamKeyOf(teamKeyOf(norm.input)))

NextNorm == NormSafeId \/ NormSanitizeEmail \/ NormTeamKey

SpecNorm == InitNorm /\ [][NextNorm]_vars

(* ------------------- the client helper presignFiles ------------------- *)
\* data.<field>: the list the response carries under that name, else undefined
ResponseList(resp, field) == IF resp.listField = field THEN resp.uploads ELSE << >>

\* utils/s3.ts holds two live versions of the helper
ClientVersions == {"urls", "uploadsOrUrls"}

\* what presignFiles makes of the response to its POST /upload: it throws
\* unless res.ok, and else returns data.urls || [], or in the other version
\* data.uploads || data.urls || []
presignFiles(version, resp) ==
  IF resp.status \notin 200..299 THEN [threw |-> TRUE, items |-> << >>]
  ELSE IF version = "urls" THEN [threw |-> FALSE, items |-> ResponseList(resp, "urls")]
  ELSE [threw |-> FALSE,
        items |-> Or(ResponseList(resp, "uploads"), ResponseList(resp, "urls"))]

(* --------------------- the wizard in the browser ---------------------- *)
\* /api/put as deployed
PutHandler(method, body, fail) ==
  IF deploy.put = "putA" THEN PutAHandler(method, body, fail)
  ELSE IF deploy.put = "putB" THEN PutBHandler(method, body, fail)
  ELSE PutCHandler(method, body, fail)

\* the forms the user may have filled in on the knowledge step
ConfForms == {emptyConfluence, [sourceName |-> <<"c">>, url |-> <<"u">>]}
FilesForms ==
  {emptyFiles} \cup {[sourceName |-> <<"f">>, files |-> PickedFiles(n)] : n \in 0..MaxUploads}

InitWizard ==
  /\ env \in {e \in Envs : e.region /\ e.prefix = << >>}
  /\ deploy \in [put : PutVersions, status : {"regKey"}, upload : {"uploadSeq"}]
  /\ ~env.bucket => deploy.put = "putB"   \* without a bucket every version answers 500
  /\ ui \in {Home(c, NoStorage, NoHist) : c \in HelperVersions}
  /\ poll = NoPoll
  /\ norm = NoNorm
  /\ store = << >>
  /\ now = 0
  /\ nreq = 0
  /\ last = NoLast
  /\ puts = {}

\* a step of the page that reaches no server
Page(u) ==
  /\ ui' = u
  /\ UNCHANGED <<env, deploy, store, now, nreq, last, puts, norm, poll>>

\* the page is loaded again: component state is lost, local storage is kept
Reload == Page(Home(ui.client, ui.ls, ui.hist))

\* the two effects run after the first render, in the order they are declared
MountEffects == ui.phase = "mounted" /\ Page(PersistEffect(MountEffect(ui)))

Rerender == ui.phase = "restoring" /\ Page(Rerendered(ui))

\* the page takes clicks once its first effects and the render they asked
\* for have run
Interactive == ui.phase = "settled"

\* renderTopNav: every tab is a button that sets the section; the Continue and
\* Previous buttons of the steps lead to sections the tabs lead to as well.
\* The tabs of the other four sections show pages without handlers.
Sections == {"onboard", "knowledge"}
SetSection == Interactive /\ \E s \in Sections : Page([ui EXCEPT !.section = s])

\* the inputs of a step are disabled once the step is done
Edit ==
  /\ Interactive
  /\ \/ /\ ui.section = "onboard" /\ ~ui.regDone
        /\ \E m \in RegForms : Page([ui EXCEPT !.reg = m])
     \/ /\ ui.section = "knowledge" /\ ~ui.knowledgeDone
        /\ \/ \E m \in ConfForms : Page([ui EXCEPT !.conf = m])
           \/ \E m \in FilesForms : Page([ui EXCEPT !.filesModel = m])

\* the Submit button of step 1: rendered while !regDone, disabled while regSubmitting
SubmitRegistration ==
  /\ Interactive /\ ui.section = "onboard"
  /\ ~ui.regDone /\ ~ui.regSubmitting
  /\ Page(onSubmitRegistration(ui))

\* the Submit button of a pane of step 2: rendered while !knowledgeDone,
\* disabled while knowledgeSubmitting and, on the files pane, while filesUploading
SubmitKnowledge ==
  /\ Interactive /\ ui.section = "knowledge"
  /\ ~ui.knowledgeDone /\ ~ui.knowledgeSubmitting
  /\ \E from \in {"confluence", "files"} :
       /\ from = "files" => ~ui.filesUploading
       /\ Page(onSubmitKnowledge(ui, from))

\* the POST /api/put a handler of the page is waiting for: it is served, or does
\* not get through, and the handler goes on with the outcome
Answered(u, key, reached, r) ==
  /\ ui' = u
  /\ store' = IF reached THEN r.store ELSE store
  /\ last' = IF reached
             THEN [op |-> deploy.put, method |-> "POST",
                   body |-> [EmptyBody EXCEPT !.key = key], at |-> now, resp |-> r.resp]
             ELSE last
  /\ puts' = IF reached /\ r.resp.status = 200
             THEN puts \cup {[op |-> deploy.put, body |-> [EmptyBody EXCEPT !.key = key],
                              key |-> r.resp.key, at |-> now]}
             ELSE puts
  /\ UNCHANGED <<env, deploy, now, nreq, norm, poll>>

RegistrationPut ==
  /\ ui.pcReg = "put"
  /\ \E reached \in BOOLEAN, fail \in BOOLEAN :
       LET r == PutHandler("POST", [EmptyBody EXCEPT !.key = ui.regRequest], fail)
           u == RegistrationAwait(ui, putS3(ui.client, reached, r.resp))
       IN  Answered([u EXCEPT !.hist.stored = @ \/ (reached /\ r.resp.status \in 200..299)],
                    ui.regRequest, reached, r)

\* the await onSubmitKnowledge stands at settles
KnowledgeStep ==
  /\ ui.pcKn # "idle"
  /\ \E reached \in BOOLEAN, fail \in BOOLEAN :
       LET r == PutHandler("POST", [EmptyBody EXCEPT !.key = ui.knRequest], fail)
       IN  IF ui.pcKn = "presign"
             THEN Page(KnowledgeAwait(ui, WizardPresign(ui.client, 1)))
           ELSE IF ui.pcKn = "upload"
             THEN Page(KnowledgeAwait(ui, IF reached THEN "resolved" ELSE "threw"))
           ELSE Answered(KnowledgeAwait(ui, putS3(ui.client, reached, r.resp)),
                         ui.knRequest, reached, r)

NextWizard ==
  \/ Reload
  \/ MountEffects
  \/ Rerender
  \/ SetSection
  \/ Edit
  \/ SubmitRegistration
  \/ RegistrationPut
  \/ SubmitKnowledge
  \/ KnowledgeStep

SpecWizard == InitWizard /\ [][NextWizard]_vars

(* ----------------- checkS3 polling until it returns ------------------- *)
\* opts.timeoutMs and opts.intervalMs, in instants of the model's clock
PollTimeouts == 0..2
PollIntervals == {0, 1}

\* what the API at opts.baseUrl answers a probe with, if the request gets through
ProbeAnswers == {[reached |-> r, status |-> s] : r \in BOOLEAN, s \in {200, 404, 500}}

InitPolling ==
  InitDeployed({DefaultEnv}, [put : {"putB"}, status : {"regKey"}, upload : {"uploadSeq"}])

PollFrame == UNCHANGED <<env, deploy, store, nreq, last, puts, norm, ui>>

\* checkS3(successKey, failureKey, {timeoutMs, intervalMs}) is called
PollCall ==
  /\ poll.pc \in {"idle", "returned"}
  /\ now <= MaxMs
  /\ \E tmo \in PollTimeouts, int \in PollIntervals :
       poll' = [NoPoll EXCEPT !.pc = "while", !.timeoutMs = tmo, !.intervalMs = int,
                              !.start = now]
  /\ now' = now
  /\ PollFrame

\* the call goes on: the loop test, a probe answered, or the timer of the sleep
PollAdvance ==
  /\ poll.pc \notin {"idle", "returned"}
  /\ poll.pc = "sleep" => now >= poll.wake
  /\ \E a \in ProbeAnswers : poll' = PollStep(poll, now, ExistsOf(a.reached, a))
  /\ now' = now
  /\ PollFrame

\* a millisecond passes
Elapse ==
  /\ now < PollHorizon
  /\ now' = now + 1
  /\ poll' = poll
  /\ PollFrame

NextPolling == PollCall \/ PollAdvance \/ Elapse

\* a probe is answered or fails in the transport, a timer fires, time passes
SpecPolling ==
  InitPolling /\ [][NextPolling]_vars /\ WF_vars(PollAdvance) /\ WF_vars(Elapse)

(* -------------------- every route of one deployment ------------------- *)
\* three deployments that between them serve every version of every route
RouteDeployments ==
  { [put |-> "putA", status |-> "regKey", upload |-> "uploadSeq"],
    [put |-> "putB", status |-> "safeId", upload |-> "uploadAll"],
    [put |-> "putC", status |-> "regKey", upload |-> "uploadContact"] }

\* well-formed requests and the ones validation turns away: no kind, an
\* unknown kind, no owner, no files, the wrong method
RoutePutRequests ==
  PutRequests({L_registration, <<"x">>, << >>}, {"teamEmail"}, {<<"a","@","b">>, << >>})

RouteUploadRequests ==
  {[method |-> "POST",
    body |-> [MkBody(<< >>, "all", o, 0) EXCEPT !.filesKind = "array", !.files = PickedFiles(n)]] :
      o \in {<<"a","@","b">>, << >>}, n \in 0..1}
    \cup {[method |-> "GET", body |-> EmptyBody]}

InitRoutes == InitDeployed(Envs, RouteDeployments)

NextRoutes ==
  \/ PutA(RoutePutRequests)
  \/ PutB(RoutePutRequests)
  \/ PutC(RoutePutRequests)
  \/ S3Probe
  \/ StatusRegKey
  \/ StatusSafeId
  \/ UploadSeq(RouteUploadRequests, MaxUploads)
  \/ UploadAll(RouteUploadRequests, MaxUploads)
  \/ UploadContact(RouteUploadRequests, MaxUploads)
  \/ Process
  \/ Tick

SpecRoutes == InitRoutes /\ [][NextRoutes]_vars

(* --------------- owners, file names and the keys they get ------------- *)
\* two owner e-mails that differ after trimming and lower-casing
KeyOwners == { <<"a","!","b","@","c">>, <<"a","_","b","@","c">> }

\* file names with a path separator and a parent directory, an escape, a space
KeyFileNames == { <<"a">>, <<".",".","/","a">>, <<"%","2","F">>, <<"a"," ","b">> }

KeyPutRequests == PutRequests({L_registration}, {"teamEmail"}, KeyOwners)

KeyUploadRequests ==
  {[method |-> "POST",
    body |-> [MkBody(<< >>, "all", o, 0) EXCEPT !.filesKind = "array",
                                                !.files = <<[name |-> n]>>]] :
      o \in KeyOwners, n \in KeyFileNames}

InitKeys == InitDeployed({e \in Envs : e.bucket /\ e.region}, RouteDeployments)

NextKeys ==
  \/ PutA(KeyPutRequests)
  \/ PutB(KeyPutRequests)
  \/ PutC(KeyPutRequests)
  \/ UploadSeq(KeyUploadRequests, MaxReq)
  \/ UploadAll(KeyUploadRequests, MaxReq)
  \/ UploadContact(KeyUploadRequests, MaxReq)
  \/ Tick

SpecKeys == InitKeys /\ [][NextKeys]_vars

(* ------------- one owner presigning the same files again -------------- *)
NextReissue ==
  \/ UploadSeq(PresignRequests, MaxReq)
  \/ UploadAll(PresignRequests, MaxReq)
  \/ UploadContact(PresignRequests, MaxReq)
  \/ UploadWithPresigned
  \/ Tick

SpecReissue == InitPresign /\ [][NextReissue]_vars

(* ============================== claims ================================ *)
IsPut == last.op \in PutVersions
IsStatus == last.op \in {"statusRegKey", "statusSafeId"}
IsUpload == last.op \in UploadVersions

\* no backend call of the last request failed
NoFailure == \A i \in DOMAIN last.resp.calls : ~last.resp.calls[i].failed

\* the keys /put has returned in a 200 answer
ReturnedKeys == {p.key : p \in puts}

\* the owner e-mail is present under at least one of the three field names
OwnerGiven(body) == body.teamEmail # << >> \/ body.contactEmail # << >> \/ body.email # << >>

\* C1 (as stated): a probe of a key never written answers exists:false, and
\* every probe of a key that a 200 answer of /put returned answers exists:true.
C1_EveryProbeTrue ==
  (last.op = "s3" /\ last.method = "POST" /\ env.bucket /\ last.body.key # << >>) =>
    /\ last.body.key \notin DOMAIN store =>
         last.resp.status = 200 /\ last.resp.flag = "false"
    /\ last.body.key \in ReturnedKeys =>
         last.resp.status = 200 /\ last.resp.flag = "true"

\* C1 (amended): a probe of a key never written answers exists:false, and a
\* probe of a key that a 200 answer of /put returned answers exists:true
\* whenever its HEAD call does not fail (a failed HEAD is answered exists:false).
C1_ProbeRoundTrip ==
  (last.op = "s3" /\ last.method = "POST" /\ env.bucket /\ last.body.key # << >>) =>
    /\ last.body.key \notin DOMAIN store =>
         last.resp.status = 200 /\ last.resp.flag = "false"
    /\ (last.body.key \in ReturnedKeys /\ NoFailure) =>
         last.resp.status = 200 /\ last.resp.flag = "true"
    /\ (last.body.key \in ReturnedKeys /\ ~NoFailure) =>
         last.resp.status = 200 /\ last.resp.flag = "false"

C1_Witness ==
  /\ last.op = "s3"
  /\ last.body.key \in ReturnedKeys
  /\ last.resp.flag = "true"

\* C2: once the put.ts:213 handler has answered 200 to a registration with
\* teamEmail e, a registration-status request for e whose HEAD call does not
\* fail is answered registered:true, whatever the case of e and the prefix.
C2_RegisteredAfterPut ==
  ( /\ IsStatus /\ last.method = "GET" /\ NoFailure
    /\ \E p \in puts : /\ p.op = "putB"
                       /\ p.body.kind = L_registration
                       /\ p.body.teamEmail = last.body.email )
  => (last.resp.status = 200 /\ last.resp.flag = "true")

\* C3: two 200-answered registration puts for the same owner return the same
\* key, and after a registration put the store holds exactly one registration
\* object of that owner, whose content is the body just sent.
RegistrationObjects(owner) ==
  {k \in DOMAIN store : store[k].kind = L_registration /\ store[k].teamEmail = owner}

C3_LatestOverwrite ==
  /\ \A p, q \in puts :
       ( /\ p.body.kind = L_registration /\ q.body.kind = L_registration
         /\ p.body.teamEmail = q.body.teamEmail ) => p.key = q.key
  /\ (IsPut /\ last.resp.status = 200 /\ last.body.kind = L_registration) =>
       /\ RegistrationObjects(last.body.teamEmail) = {last.resp.key}
       /\ store[last.resp.key] = last.body

\* C4: two 200-answered sources puts for the same owner at different clock
\* instants return different keys, and the store still holds both bodies.
C4_SourcesAppendOnly ==
  \A p, q \in puts :
    ( /\ p.body.kind = L_sources /\ q.body.kind = L_sources
      /\ p.body.teamEmail = q.body.teamEmail
      /\ p.at # q.at )
    => /\ p.key # q.key
       /\ p.key \in DOMAIN store /\ store[p.key] = p.body
       /\ q.key \in DOMAIN store /\ store[q.key] = q.body

\* C5: a POST /upload that names the owner but carries no file (an empty
\* list, none, or something that is no list) makes no signing call, and is
\* answered 400 wherever the bucket and region are configured.
C5_NoFilesRejected ==
  ( /\ IsUpload /\ last.method = "POST"
    /\ OwnerGiven(last.body)
    /\ (last.body.filesKind # "array" \/ last.body.files = << >>) )
  => /\ last.resp.calls = << >>
     /\ (env.bucket /\ env.region) => last.resp.status = 400

C5_Witness ==
  /\ IsUpload /\ last.method = "POST" /\ env.bucket /\ env.region
  /\ OwnerGiven(last.body)
  /\ last.body.filesKind = "array" /\ last.body.files = << >>
  /\ last.resp.status = 400

\* the file name as each version puts it at the end of the key
SanitizedName(op, name) ==
  IF op = "uploadAll" THEN safeFileName(name) ELSE encodeURIComponent(name)

EndsWith(s, suffix) ==
  /\ Len(suffix) <= Len(s)
  /\ SubSeq(s, Len(s) - Len(suffix) + 1, Len(s)) = suffix

\* the rand(6) values drawn while answering did not repeat
DistinctRands ==
  \A i, j \in 1..Len(last.resp.rands) : i # j => last.resp.rands[i] # last.resp.rands[j]

\* C6: a 200 answer of /upload to n >= 1 descriptors carries n entries in
\* request order, entry i named as file i with a key ending in file i's
\* sanitized name, and the n keys are pairwise distinct (also when two
\* descriptors carry the same name), as long as no random suffix repeats.
C6_DistinctKeys ==
  (IsUpload /\ last.resp.status = 200 /\ DistinctRands) =>
    LET files == last.body.files
        ups   == last.resp.uploads
    IN  /\ Len(ups) = Len(files)
        /\ \A i \in 1..Len(files) :
             /\ ups[i].name = files[i].name
             /\ EndsWith(ups[i].key, SanitizedName(last.op, files[i].name))
        /\ \A i, j \in 1..Len(ups) : i # j => ups[i].key # ups[j].key

\* C7: every key /put returns consists of lower-case letters, digits and . _ - /
KeySafeChars == Lower \cup Digit \cup {".", "_", "-", "/"}

C7_KeyCharset ==
  \A p \in puts : \A i \in 1..Len(p.key) : p.key[i] \in KeySafeChars

\* C8: each owner normalisation (safeId, sanitizeEmail, lower-case + trim +
\* encodeURIComponent) gives the same result applied twice as applied once.
C8_Idempotent == norm.fn # "none" => norm.twice = norm.once

\* C9: in a configured deployment whose backend write does not fail, /put
\* answers 200 with a key to a body with a kind and the owner under exactly one
\* of teamEmail, contactEmail, email, and 400 only when the kind or all three
\* are missing.
C9_AnyOwnerField ==
  (IsPut /\ last.method = "POST" /\ env.bucket /\ env.region /\ NoFailure) =>
    /\ (last.body.kind # << >> /\ OwnerGiven(last.body)) =>
         (last.resp.status = 200 /\ last.resp.key # << >>)
    /\ last.resp.status = 400 =>
         (last.body.kind = << >> \/ ~OwnerGiven(last.body))

\* C10: /put answers 200 {ok:true, key} only when its one PutObject call, of
\* the request body at exactly that key, succeeded; a failed write is answered
\* 500 without ok:true; and no request makes more than one write attempt.
C10_WriteThenAnswer ==
  IsPut =>
    LET r == last.resp
    IN  /\ Len(r.calls) <= 1
        /\ \A i \in 1..Len(r.calls) : r.calls[i].cmd = "PutObject"
        /\ r.status = 200 =>
             /\ r.ok
             /\ r.calls = << [cmd |-> "PutObject", key |-> r.key, failed |-> FALSE] >>
             /\ r.key \in DOMAIN store
             /\ store[r.key] = last.body
        /\ ~NoFailure => (r.status = 500 /\ ~r.ok)
        /\ r.ok => r.status = 200

C10_Witness ==
  /\ IsPut
  /\ last.resp.status = 200
  /\ last.resp.key \in DOMAIN store

\* C11: whenever POST /upload answers 200 for n files, presignFiles (either
\* version of the helper) returns n entries, the ones the server sent.
C11_ClientSeesUploads ==
  (IsUpload /\ last.resp.status = 200) =>
    \A v \in ClientVersions :
      /\ ~presignFiles(v, last.resp).threw
      /\ Len(presignFiles(v, last.resp).items) = Len(last.body.files)
      /\ presignFiles(v, last.resp).items = last.resp.uploads

\* C12: POST /s3 with a key and a configured bucket answers 200 {ok:true,
\* exists:false} to every failure of the HEAD call (not found or any other),
\* never a 5xx, and answers exists:true only when the HEAD call succeeded on
\* a stored object.
C12_LenientProbe ==
  (last.op = "s3" /\ last.method = "POST" /\ env.bucket /\ last.body.key # << >>) =>
    /\ last.resp.status = 200 /\ last.resp.ok
    /\ Len(last.resp.calls) = 1
    /\ (~NoFailure \/ last.body.key \notin DOMAIN store) => last.resp.flag = "false"
    /\ last.resp.flag = "true" => (NoFailure /\ last.body.key \in DOMAIN store)
    /\ last.resp.flag \in {"true", "false"}

C12_Witness ==
  /\ last.op = "s3" /\ last.method = "POST" /\ env.bucket
  /\ last.body.key \in DOMAIN store
  /\ ~NoFailure
  /\ last.resp.status = 200 /\ last.resp.flag = "false"

\* C13: a registration-status GET with an e-mail, in a deployment with a
\* bucket, answers registered:false only when the HEAD call reported not
\* found, answers 500 to every other failure of the HEAD call, and answers
\* registered:true only when the HEAD call succeeded.
C13_NotFoundOrFailure ==
  (IsStatus /\ last.method = "GET" /\ env.bucket /\ last.body.email # << >>) =>
    /\ last.resp.flag = "false" => NoFailure
    /\ ~NoFailure => last.resp.status = 500
    /\ last.resp.flag = "true" => NoFailure

\* C14: with the bucket name unconfigured every request, whatever its method
\* and body, is answered 500 and no backend call is made.
C14_NoBucketFatal ==
  (~env.bucket /\ last.op # "none") =>
    (last.resp.status = 500 /\ last.resp.calls = << >>)

C16_AllOrNothing ==
  IsUpload =>
    /\ Len(last.resp.calls) <= Len(last.body.files)
    /\ ~NoFailure =>
         /\ last.resp.status = 500 /\ ~last.resp.ok
         /\ last.resp.uploads = << >>
         /\ last.resp.listField = "none"

C16_Witness ==
  /\ IsUpload
  /\ Len(last.resp.calls) = 2
  /\ ~last.resp.calls[1].failed /\ last.resp.calls[2].failed
  /\ last.resp.status = 500

\* the owner segment each version puts into the key
OwnerSegment(op, body) ==
  CASE op = "putA" -> sanitizeEmail(trim(Or(body.contactEmail, body.teamEmail)))
    [] op = "putB" -> teamKeyOf(body.teamEmail)
    [] op = "putC" -> encodeURIComponent(Or(body.contactEmail, body.teamEmail))
    [] op = "uploadSeq" ->
         sanitizeEmail(trim(Or(body.email, Or(body.contactEmail, body.teamEmail))))
    [] op = "uploadAll" -> safeId(body.email)
    [] op = "uploadContact" -> encodeURIComponent(Or(body.contactEmail, body.teamEmail))

\* C17: a POST /put or POST /upload whose owner normalises to the empty
\* string is answered 400 and makes no backend call.
C17_EmptyOwnerRejected ==
  ((IsPut \/ IsUpload) /\ last.method = "POST" /\ OwnerSegment(last.op, last.body) = << >>) =>
    (last.resp.status = 400 /\ last.resp.calls = << >>)

\* C18: in a configured deployment, a POST /upload that names the owner and
\* lists a descriptor with an empty name is answered 400 and returns no
\* presigned URL for any file.
C18_NamelessRejected ==
  ( /\ IsUpload /\ last.method = "POST" /\ env.bucket /\ env.region
    /\ OwnerGiven(last.body)
    /\ \E i \in DOMAIN last.body.files : last.body.files[i].name = << >> )
  => (last.resp.status = 400 /\ last.resp.uploads = << >>)

\* C19: /process answers 200 {ok:true, key} only with the marker holding the
\* request's teamEmail and sourcesKey (null when absent) stored at that key;
\* with a bucket configured and teamEmail missing a POST is answered 400 and
\* nothing is written; and the marker of every earlier 200 answer is still
\* stored, as written, at the key that answer returned.
C19_MarkersKept ==
  /\ (last.op = "process" /\ last.resp.status = 200) =>
       /\ last.resp.ok /\ last.body.teamEmail # << >>
       /\ last.resp.key \in DOMAIN store
       /\ store[last.resp.key] = Marker(last.body, last.at)
  /\ (last.op = "process" /\ last.method = "POST" /\ env.bucket /\ last.body.teamEmail = << >>) =>
       (last.resp.status = 400 /\ last.resp.calls = << >>)
  /\ \A p \in puts :
       p.op = "process" => (p.key \in DOMAIN store /\ store[p.key] = Marker(p.body, p.at))

\* C20: checkS3 returns state "success" only if an object is stored at the
\* success key, "failed" only if one is stored at the failure key, and
\* neither of the two while neither object exists.
C20_PollTruthful ==
  last.op = "checkS3" =>
    /\ last.resp.flag = "success" => last.body.successKey \in DOMAIN store
    /\ last.resp.flag = "failed" => last.body.failureKey \in DOMAIN store
    /\ (last.body.successKey \notin DOMAIN store /\ last.body.failureKey \notin DOMAIN store)
         => last.resp.flag \notin {"success", "failed"}

\* C21: in a run of onSubmitKnowledge with files attached, the manifest write
\* is issued only after presign succeeded and every attached file was
\* uploaded; a run in which presign or an upload failed has written no
\* manifest and has not set knowledgeDone.
C21_ManifestAfterUploads ==
  ui.run.files > 0 =>
    /\ ui.run.manifest => (ui.run.presign = "ok" /\ ui.run.uploaded = ui.run.files)
    /\ (ui.run.finished /\ (ui.run.presign # "ok" \/ ui.run.uploaded < ui.run.files))
         => (~ui.run.manifest /\ ~ui.run.done)

\* C22: every call of checkS3 returns, with exactly one of the states success,
\* failed, error and timeout; it returns timeout only once at least timeoutMs
\* have passed since the call began, and it returns timeout whenever no probe
\* reported a key present and no probe failed.
C22_PollTerminates ==
  /\ [](poll.pc = "returned" =>
          /\ poll.state \in {"success", "failed", "error", "timeout"}
          /\ poll.state = "timeout" => poll.at - poll.start >= poll.timeoutMs
          /\ (~poll.present /\ ~poll.errored) => poll.state = "timeout")
  /\ (poll.pc \notin {"idle", "returned"}) ~> (poll.pc = "returned")

\* a call that slept through at least one round and then timed out
C22_Witness ==
  /\ poll.pc = "returned" /\ poll.state = "timeout"
  /\ poll.rounds > 0 /\ poll.timeoutMs > 0

\* C23: a request that /put, /upload, /s3, /process or registration-status
\* answers with 400 or 405 has made no call to the storage backend, and the
\* store after it is the store before it.
C23_ValidationFirst ==
  [][(nreq' = nreq + 1 /\ last'.resp.status \in {400, 405})
       => (store' = store /\ last'.resp.calls = << >>)]_vars

\* a request turned away by a bucket that already holds an object
C23_Witness ==
  /\ last.resp.status \in {400, 405}
  /\ last.op \in PutVersions \cup {"process"}
  /\ store # << >>

\* C24: regDone is true only if a registration /put of this browser was
\* answered 2xx; a 400 or 500 answer leaves it false.
C24_RegDoneOnlyIfStored == ui.regDone => ui.hist.stored

\* C25: a lock flag that was true and persisted as "1" is true again, and
\* stored as "1", whenever the mount effects of a reload have settled,
\* whatever the moment of the reload.
C25_LocksSurviveReload ==
  ui.phase = "settled" => \A f \in ui.hist.locked : ui[f] /\ ui.ls[f] = "1"

\* C26: whenever no run of onSubmitKnowledge is in progress, knowledgeSubmitting
\* and filesUploading are both false, so that the Submit buttons of step 2 are
\* enabled while knowledgeDone is false.
C26_BusyFlagsReleased ==
  ui.pcKn = "idle" => (~ui.knowledgeSubmitting /\ ~ui.filesUploading)

\* C27: the knowledge-sources section is shown, and onSubmitKnowledge has been
\* invoked, only with regDone true.
C27_StepGating ==
  (ui.section = "knowledge" \/ ui.run.from # "none") => ui.regDone

StartsWith(s, prefix) ==
  /\ Len(prefix) <= Len(s)
  /\ SubSeq(s, 1, Len(prefix)) = prefix

Slashes(s) == Cardinality({i \in 1..Len(s) : s[i] = "/"})

\* the request body as another owner would have sent it
WithOwner(body, o) == [body EXCEPT !.teamEmail = o, !.contactEmail = o, !.email = o]

\* the part of the upload key each version puts before the file's own part
UploadPrefixOf(op, body) ==
  CASE op = "uploadSeq" -> L_coachSlash \o OwnerSegment(op, body) \o L_uploads
    [] op = "uploadAll" ->
         UploadAllPrefix \o L_uploads \o OwnerSegment(op, body) \o <<"/">>
    [] op = "uploadContact" ->
         Or(env.prefix, L_coachSlash) \o L_uploadsSlash \o OwnerSegment(op, body) \o <<"/">>

\* C28: two owner e-mails that differ after trimming and lower-casing are
\* never given the same registration key, and no upload key issued to one of
\* them lies under the upload prefix of the other.
C28_DisjointNamespaces ==
  /\ \A p, q \in puts :
       ( /\ p.op \in PutVersions /\ q.op \in PutVersions
         /\ p.body.kind = L_registration /\ q.body.kind = L_registration
         /\ toLowerCase(trim(p.body.teamEmail)) # toLowerCase(trim(q.body.teamEmail)) )
       => p.key # q.key
  /\ (IsUpload /\ last.resp.status = 200) =>
       \A o \in KeyOwners :
         toLowerCase(trim(o)) # toLowerCase(trim(last.body.email)) =>
           \A i \in 1..Len(last.resp.uploads) :
             ~StartsWith(last.resp.uploads[i].key,
                         UploadPrefixOf(last.op, WithOwner(last.body, o)))

\* C29: every key POST /upload issues begins with the upload prefix of the
\* owner of the request, and the file name adds no "/" to it: the name, with
\* "/", "..", "%" or a space in it, ends up in the one last path segment.
C29_KeysUnderPrefix ==
  (IsUpload /\ last.resp.status = 200) =>
    \A i \in 1..Len(last.resp.uploads) :
      LET key    == last.resp.uploads[i].key
          prefix == UploadPrefixOf(last.op, last.body)
      IN  /\ StartsWith(key, prefix)
          /\ Slashes(key) = Slashes(prefix)
                              + (IF last.op = "uploadAll" THEN Slashes(L_day) + 1 ELSE 0)

\* a key issued for the file name "../a"
C29_Witness ==
  /\ IsUpload /\ last.resp.status = 200
  /\ last.body.files[1].name = <<".",".","/","a">>
  /\ last.resp.uploads # << >>

\* C30: a key POST /upload issues to an owner for a file name was not issued
\* to an earlier request of that owner for that file name, whether the
\* earlier request was served in the same clock instant or before it. Stated
\* for the two versions whose keys the request and the clock determine; the
\* earlier key is known by the file the browser has stored through its URL.
C30_FreshKeys ==
  [][(nreq' = nreq + 1 /\ last'.op \in {"uploadSeq", "uploadContact"} /\ last'.resp.status = 200)
       => \A i \in 1..Len(last'.resp.uploads) :
            ~ ( /\ last'.resp.uploads[i].key \in DOMAIN store
                /\ store[last'.resp.uploads[i].key] = FileObject(last'.resp.uploads[i].name) )]_vars

====
